---------------------------- MODULE Spec2Model ----------------------------
(***************************************************************************)
(* A model of the media acquisition pipeline of src/app.py:                *)
(* detect_platform, get_media_type_from_url, scrape_media_urls,            *)
(* download_with_requests, download_with_ytdlp, get_photo_index and        *)
(* download_media.                                                         *)
(*                                                                         *)
(* A URL is the triple (netloc, path, query).  The netloc is the sequence  *)
(* of its dot-separated labels, the path the sequence of the segments that *)
(* follow its leading "/".  The label and segment alphabets are chosen so  *)
(* that Python's substring tests ("facebook.com" in domain, "/watch" in    *)
(* path) coincide with tests on whole labels and segments.                 *)
(***************************************************************************)
EXTENDS Integers, Sequences, FiniteSets, TLC

VARIABLES
    pc,           \* position of the running call
    netloc,       \* urlparse(url).netloc, as typed (labels)
    path,         \* urlparse(url).path (segments)
    query,        \* the URL's query string
    platform,     \* download_media's local `platform`
    dir,          \* the files of VIDEO_DIR
    collected,    \* scrape_media_urls' local `media_links` (before dedup)
    media_links,  \* the list scrape_media_urls returned
    vids,         \* download_media's local `vids`
    imgs,         \* download_media's local `imgs`
    chosen,       \* the url handed to download_with_requests
    save_dir,     \* the directory handed to download_with_requests
    warned,       \* the "photo index out of range" warning was printed
    browser,      \* state of the rendering session of the last sniff/scrape
    sniff,        \* how the meta-tag sniff of this call ended ("" if none ran)
    fetched,      \* how download_with_ytdlp ended ("" if not called)
    scraped,      \* how scrape_media_urls ended ("" if not called)
    calls,        \* how often each collaborator was invoked in this call
    racers,       \* the concurrent download_with_ytdlp calls, by caller
    result        \* what download_media (or the function under study) gave

vars == <<pc, netloc, path, query, platform, dir, collected, media_links,
          vids, imgs, chosen, save_dir, warned, browser, sniff, fetched,
          scraped, calls, racers, result>>

---------------------------------------------------------------------------
(* Bounds of the model *)

MaxSegs == 3

MaxEls == 2

MaxLabels == 4

MaxCollected == 5

MaxFetches == 3

---------------------------------------------------------------------------
(* Generic helpers *)

Range(s) == {s[i] : i \in 1..Len(s)}

SeqsUpTo(S, n) == UNION {[1..k -> S] : k \in 0..n}

Max(S) == CHOOSE x \in S : \A y \in S : y <= x

---------------------------------------------------------------------------
(* URLs *)

\* str.lower() on one label
Lower(l) ==
    CASE l = "YouTube" -> "youtube"
      [] l = "WWW" -> "www"
      [] OTHER -> l

LowerAll(host) == [i \in 1..Len(host) |-> Lower(host[i])]

\* "a.b" in domain, for a pattern of whole labels
ContainsLabels(host, pat) ==
    \E i \in 0..(Len(host) - Len(pat)) :
        \A j \in 1..Len(pat) : host[i + j] = pat[j]

\* the hostnames the acquisition behaviours are run on
Netlocs ==
    { <<"WWW", "facebook", "com">>,
      <<"www", "YouTube", "com">>,
      <<"youtu", "be">>,
      <<"fb", "watch">> }

\* the hostnames the classifier alone is run on
Labels == {"facebook", "youtube", "YouTube", "youtu", "com", "be"}

WideNetlocs == SeqsUpTo(Labels, MaxLabels) \ {<<>>}

\* "" is the segment after a trailing "/"
Segs == {"photo", "2", "watch", ""}

Paths == SeqsUpTo(Segs, MaxSegs)

Queries == {"", "story_fbid=1"}

---------------------------------------------------------------------------
(* detect_platform: the hostname rules *)

NoPlatform == "None"

\* the hostname rules without the short youtu.be host
DomainPlatformLongHosts(host) ==
    LET domain == LowerAll(host) IN
    IF ContainsLabels(domain, <<"facebook", "com">>) THEN "facebook"
    ELSE IF ContainsLabels(domain, <<"youtube", "com">>) THEN "youtube"
    ELSE NoPlatform

\* detect_platform, lines 29-35: the platform the hostname alone gives,
\* NoPlatform when the meta-tag sniff has to decide
DomainPlatform(host) ==
    LET domain == LowerAll(host) IN
    IF ContainsLabels(domain, <<"facebook", "com">>) THEN "facebook"
    ELSE IF ContainsLabels(domain, <<"youtube", "com">>)
            \/ ContainsLabels(domain, <<"youtu", "be">>) THEN "youtube"
    ELSE NoPlatform

\* what the rendering session of the sniff can end in
SniffOutcomes == {"launch_fault", "new_page_fault", "goto_fault",
                  "facebook_meta", "youtube_meta", "no_meta"}

\* a sniff that takes any og:site_name tag for Facebook's
SniffPlatformAnySite(outcome) ==
    CASE outcome \in {"facebook_meta", "no_meta"} -> "facebook"
      [] outcome = "youtube_meta" -> "youtube"
      [] OTHER -> NoPlatform

\* detect_platform, lines 41-53: the value returned once the page exists
SniffPlatform(outcome) ==
    CASE outcome = "facebook_meta" -> "facebook"
      [] outcome = "youtube_meta" -> "youtube"
      [] OTHER -> NoPlatform

---------------------------------------------------------------------------
(* Candidate urls and get_media_type_from_url *)

\* a candidate url: whether it holds "fbcdn.net", its basename's stem and
\* extension ("" when the basename has no dot)
SrcA == [cdn |-> TRUE, stem |-> "a", ext |-> ".jpg"]
SrcV == [cdn |-> TRUE, stem |-> "v", ext |-> ".mp4"]
SrcU == [cdn |-> TRUE, stem |-> "u", ext |-> ""]
SrcX == [cdn |-> FALSE, stem |-> "x", ext |-> ".jpg"]
\* el.get_attribute("src") gave None
NoSrc == [cdn |-> FALSE, stem |-> "None", ext |-> ""]

SrcAttrs == {SrcA, SrcV, SrcU, SrcX, NoSrc}

\* what head_content_type can return; "None" when the HEAD failed or the
\* response had no Content-Type
Mimes == {"image/jpeg", "video/mp4", "binary/octet-stream", "None"}

MimeMajor(mime) ==
    CASE mime = "image/jpeg" -> "image"
      [] mime = "video/mp4" -> "video"
      [] mime = "binary/octet-stream" -> "binary"
      [] OTHER -> "None"

\* get_media_type_from_url, lines 68-80, given the HEAD's answer
MediaTypeFromUrl(src, mime) ==
    IF mime # "None" /\ MimeMajor(mime) = "image" THEN "image"
    ELSE IF mime # "None" /\ MimeMajor(mime) = "video" THEN "video"
    ELSE IF src.ext \in {".jpg", ".jpeg", ".png", ".gif"} THEN "image"
    ELSE IF src.ext \in {".mp4", ".mov", ".mkv", ".avi"} THEN "video"
    ELSE "None"

---------------------------------------------------------------------------
(* scrape_media_urls *)

\* lines 113, 119, 124: if src and "fbcdn.net" in src
KeepSrc(src) == src # NoSrc /\ src.cdn

\* lines 132-137: the loop over media_links with the set `seen`
RECURSIVE DedupLoop(_, _, _, _)
DedupLoop(ms, i, seen, unique_links) ==
    IF i > Len(ms) THEN unique_links
    ELSE IF ms[i] \notin seen
         THEN DedupLoop(ms, i + 1, seen \cup {ms[i]}, Append(unique_links, ms[i]))
         ELSE DedupLoop(ms, i + 1, seen, unique_links)

\* a dedup that only compares a url with the one collected just before it
RECURSIVE DedupAdjacentLoop(_, _, _)
DedupAdjacentLoop(ms, i, unique_links) ==
    IF i > Len(ms) THEN unique_links
    ELSE IF i = 1 \/ ms[i] # ms[i - 1]
         THEN DedupAdjacentLoop(ms, i + 1, Append(unique_links, ms[i]))
         ELSE DedupAdjacentLoop(ms, i + 1, unique_links)

DedupAdjacent(ms) == DedupAdjacentLoop(ms, 1, <<>>)

Dedup(ms) == DedupLoop(ms, 1, {}, <<>>)

\* lines 110-125: what the three loops append when the fault (if any)
\* comes after `cut` elements were read, in the order video elements,
\* marker-flagged images, content-host images
Collect(videoEls, markerImgs, contentImgs, cut) ==
    SelectSeq(SubSeq(videoEls \o markerImgs \o contentImgs, 1, cut), KeepSrc)

\* faults of the session before the try block (lines 87-95)
ScrapeSetupFaults == {"launch_fault", "new_page_fault", "headers_fault"}

---------------------------------------------------------------------------
(* get_photo_index *)

\* the segments int() accepts
IsNumeric(seg) == seg \in {"0", "1", "2", "3"}

IntOf(seg) ==
    CASE seg = "0" -> 0
      [] seg = "1" -> 1
      [] seg = "2" -> 2
      [] seg = "3" -> 3

\* urlparse(url).path.split("/"): the empty string before the leading "/"
PathParts(p) == <<"">> \o p

\* the index read from the segment after the first "photo" component
GetPhotoIndexAfterPhoto(p) ==
    LET parts == PathParts(p) IN
    IF "photo" \in Range(parts)
    THEN LET i == CHOOSE n \in 1..Len(parts) :
                    parts[n] = "photo" /\ \A m \in 1..(n - 1) : parts[m] # "photo"
         IN  IF i < Len(parts) /\ IsNumeric(parts[i + 1]) THEN IntOf(parts[i + 1])
             ELSE 1
    ELSE 1

\* get_photo_index, lines 213-220
GetPhotoIndex(p) ==
    LET parts == PathParts(p) IN
    IF "photo" \in Range(parts)
    THEN IF IsNumeric(parts[Len(parts)]) THEN IntOf(parts[Len(parts)]) ELSE 1
    ELSE 1

\* line 244: the path or the url names a video
VideoKeywords == {"watch", "reel", "videos", "stories"}

IsVideoShaped(p, q) ==
    (\E i \in 1..Len(p) : p[i] \in VideoKeywords) \/ q = "story_fbid=1"

---------------------------------------------------------------------------
(* download_with_ytdlp *)

\* a file of VIDEO_DIR named {prefix}_{tail}.{ext}: num tells whether the
\* tail parses as an integer, idx is that integer (0 otherwise)
File(prefix, num, idx, ext) ==
    [prefix |-> prefix, num |-> num, idx |-> idx, ext |-> ext]

TempFile(prefix, ext) == File(prefix, FALSE, 0, ext)

\* the container extensions yt-dlp reports
Exts == {"mp4", "webm"}

\* line 173: netloc.lower().split('.')[-2]; HasDomain is false when that
\* raises IndexError
HasDomain(host) == Len(host) >= 2

DomainOf(host) == LowerAll(host)[Len(host) - 1]

\* the next number taken from the count of the matching files
NextNumByCount(d, domain) ==
    Cardinality({f \in d : f.prefix = domain}) + 1

\* the number of the last numbered file taken again
NextNumLast(d, domain) ==
    LET existing_files == {f \in d : f.prefix = domain}
        nums == {f.idx : f \in {g \in existing_files : g.num}}
    IN  IF existing_files # {}
        THEN IF nums # {} THEN Max(nums) ELSE 1
        ELSE 1

\* lines 176-186
NextNum(d, domain) ==
    LET existing_files == {f \in d : f.prefix = domain}
        nums == {f.idx : f \in {g \in existing_files : g.num}}
    IN  IF existing_files # {}
        THEN IF nums # {} THEN Max(nums) + 1 ELSE 1
        ELSE 1

\* lines 203-211: the path returned
FinalFile(d, host, ext) ==
    File(DomainOf(host), TRUE, NextNum(d, DomainOf(host)), ext)

\* lines 199-209: the directory after yt-dlp wrote its output and a file
\* {domain}_temp.{ext}, if there is one, was renamed onto it
DirAfterYtdlp(d, host, ext) ==
    (d \cup {FinalFile(d, host, ext)}) \ {TempFile(DomainOf(host), ext)}

---------------------------------------------------------------------------
(* download_with_requests *)

\* mimetypes.guess_extension: "None" for a type the table does not hold
GuessExtension(mime) ==
    CASE mime = "image/jpeg" -> ".jpg"
      [] mime = "video/mp4" -> ".mp4"
      [] OTHER -> "None"

\* lines 148-155: the extension of local_filename; "TypeError" when
\* filename += ext adds None
LocalExt(src, mime) ==
    IF src.ext = ""
    THEN IF mime # "None"
         THEN IF GuessExtension(mime) = "None" THEN "TypeError"
              ELSE GuessExtension(mime)
         ELSE ".bin"
    ELSE src.ext


---------------------------------------------------------------------------
(* download_media: the choice among the candidates *)

\* what the code does with the partitioned candidates: call
\* download_with_requests(src, sd), return None, or raise
Call(src, sd, warn) == [kind |-> "call", src |-> src, sd |-> sd, warn |-> warn]

GiveUp == [kind |-> "None", src |-> NoSrc, sd |-> "", warn |-> FALSE]

Unbound == [kind |-> "UnboundLocalError", src |-> NoSrc, sd |-> "", warn |-> FALSE]

\* the fallback branch with the photo branch's unbound `index`
FallbackChoiceUnbound(links, vs, is) ==
    IF links # <<>> /\ vs # <<>> THEN Call(vs[1], "videos", FALSE)
    ELSE IF links # <<>> /\ is # <<>> THEN Call(is[1], "images", FALSE)
    ELSE Unbound

\* the fallback branch saving whatever it finds into the videos directory
FallbackChoiceOneDir(links, vs, is) ==
    IF links # <<>> /\ vs # <<>> THEN Call(vs[1], "videos", FALSE)
    ELSE IF links # <<>> /\ is # <<>> THEN Call(is[1], "videos", FALSE)
    ELSE GiveUp

\* lines 251-261
FallbackChoice(links, vs, is) ==
    IF links # <<>> /\ vs # <<>> THEN Call(vs[1], "videos", FALSE)
    ELSE IF links # <<>> /\ is # <<>> THEN Call(is[1], "images", FALSE)
    ELSE GiveUp

\* the photo branch asking for images before videos
PhotoChoiceImagesFirst(links, vs, is, p) ==
    IF links = <<>> THEN GiveUp
    ELSE IF is # <<>> THEN Call(is[1], "images", FALSE)
    ELSE IF vs # <<>> THEN Call(vs[1], "videos", FALSE)
    ELSE Unbound

\* lines 264-280; `index` is bound only when imgs is not empty
PhotoChoice(links, vs, is, p) ==
    IF links = <<>> THEN GiveUp
    ELSE IF vs # <<>> THEN Call(vs[1], "videos", FALSE)
    ELSE IF is = <<>> THEN Unbound
    ELSE LET index == GetPhotoIndex(p) - 1 IN
         IF 0 <= index /\ index < Len(is)
         THEN Call(is[index + 1], "images", FALSE)
         ELSE Call(is[1], "images", TRUE)

\* [m for m in media_links if get_media_type_from_url(m) == kind], with
\* head[m] the Content-Type the HEAD request for m gives
OfKind(links, head, kind) ==
    LET Is(m) == MediaTypeFromUrl(m, head[m]) = kind IN SelectSeq(links, Is)

---------------------------------------------------------------------------
(* State *)

\* what a call gave: kind is "running", "None", "path" or "raise"; via names
\* the fetch strategy that produced the path (the exception, for a raise);
\* a path is {save_dir}/{stem}_{idx}.{ext} (ytdlp) or {save_dir}/{stem}{ext}
\* (requests)
Res(kind, via, sd, stem, idx, ext) ==
    [kind |-> kind, via |-> via, save_dir |-> sd, stem |-> stem,
     idx |-> idx, ext |-> ext]

Running == Res("running", "", "", "", 0, "")

ReturnNone == Res("None", "", "", "", 0, "")

Raise(exc) == Res("raise", exc, "", "", 0, "")

YtdlpPath(f) == Res("path", "ytdlp", "videos", f.prefix, f.idx, f.ext)

NoCalls == [sniff |-> 0, ytdlp |-> 0, scrape |-> 0, requests |-> 0]

\* the callers of the concurrent download_with_ytdlp calls
Racers == {"a", "b"}

\* one concurrent call: where it is, its url's netloc, and its locals
\* existing_files, next_num, ext and the path it returned
Racer(at, host, existing, n, ext, ret) ==
    [pc |-> at, netloc |-> host, existing_files |-> existing, next_num |-> n,
     ext |-> ext, final_path |-> ret]

NoRacers == [r \in Racers |-> Racer("none", <<>>, {}, 0, "", Running)]

\* files VIDEO_DIR may hold before a call
SomeFiles ==
    {File("facebook", TRUE, 1, "mp4"), File("facebook", TRUE, 3, "mp4"),
     File("youtube", TRUE, 2, "mp4"), TempFile("facebook", "mp4")}

Locals ==
    /\ netloc = <<>>
    /\ path = <<>>
    /\ query = ""
    /\ platform = NoPlatform
    /\ collected = <<>>
    /\ media_links = <<>>
    /\ vids = <<>>
    /\ imgs = <<>>
    /\ chosen = NoSrc
    /\ save_dir = ""
    /\ warned = FALSE
    /\ browser = "none"
    /\ sniff = ""
    /\ fetched = ""
    /\ scraped = ""
    /\ calls = NoCalls
    /\ result = Running
    /\ racers = NoRacers

Init ==
    /\ pc = "idle"
    /\ dir = SomeFiles
    /\ Locals

---------------------------------------------------------------------------
(* download_media *)

\* line 225: download_media(url) is called
Request ==
    /\ pc = "idle"
    /\ \E h \in Netlocs, p \in Paths, q \in Queries :
         /\ netloc' = h
         /\ path' = p
         /\ query' = q
    /\ pc' = "detect"
    /\ UNCHANGED <<racers, platform, dir, collected, media_links, vids, imgs, chosen,
                   save_dir, warned, browser, sniff, fetched, scraped, calls,
                   result>>

\* detect_platform, lines 29-35: the hostname decides
DetectByDomain ==
    /\ pc = "detect"
    /\ DomainPlatform(netloc) # NoPlatform
    /\ platform' = DomainPlatform(netloc)
    /\ pc' = "gate"
    /\ UNCHANGED <<racers, netloc, path, query, dir, collected, media_links, vids,
                   imgs, chosen, save_dir, warned, browser, sniff, fetched,
                   scraped, calls, racers, result>>

\* detect_platform, lines 37-53: the meta-tag sniff in a rendering session
DetectBySniff ==
    /\ pc = "detect"
    /\ DomainPlatform(netloc) = NoPlatform
    /\ calls' = [calls EXCEPT !.sniff = @ + 1]
    /\ \E outcome \in SniffOutcomes :
         /\ sniff' = outcome
         /\ browser' = CASE outcome = "launch_fault" -> "none"
                         [] outcome = "new_page_fault" -> "open"
                         [] OTHER -> "closed"
         /\ IF outcome \in {"launch_fault", "new_page_fault"}
            THEN /\ result' = Raise("PlaywrightError")
                 /\ pc' = "done"
                 /\ UNCHANGED platform
            ELSE /\ platform' = SniffPlatform(outcome)
                 /\ pc' = "gate"
                 /\ UNCHANGED result
    /\ UNCHANGED <<racers, netloc, path, query, dir, collected, media_links, vids,
                   imgs, chosen, save_dir, warned, fetched, scraped>>

DetectPlatform == DetectByDomain \/ DetectBySniff

\* lines 227-229
RejectUnsupported ==
    /\ pc = "gate"
    /\ platform = NoPlatform
    /\ result' = ReturnNone
    /\ pc' = "done"
    /\ UNCHANGED <<racers, netloc, path, query, platform, dir, collected, media_links,
                   vids, imgs, chosen, save_dir, warned, browser, sniff,
                   fetched, scraped, calls>>

\* download_with_ytdlp(url, VIDEO_DIR), lines 169-211, returned a path
YtdlpReturns(ext) ==
    /\ HasDomain(netloc)
    /\ calls' = [calls EXCEPT !.ytdlp = @ + 1]
    /\ fetched' = "returned"
    /\ dir' = DirAfterYtdlp(dir, netloc, ext)
    /\ result' = YtdlpPath(FinalFile(dir, netloc, ext))

\* download_with_ytdlp(url, VIDEO_DIR) raised: IndexError at line 173, or
\* yt-dlp's error at line 200
YtdlpRaises ==
    /\ calls' = [calls EXCEPT !.ytdlp = @ + 1]
    /\ fetched' = "raised"
    /\ UNCHANGED dir

\* the YouTube branch falling back to the scraper as the Facebook one does
YoutubeFetchWithFallback ==
    /\ pc = "gate"
    /\ platform = "youtube"
    /\ \/ /\ \E ext \in Exts : YtdlpReturns(ext)
          /\ pc' = "done"
       \/ /\ YtdlpRaises
          /\ pc' = "fallback_scrape"
          /\ UNCHANGED result
    /\ UNCHANGED <<racers, netloc, path, query, platform, collected, media_links,
                   vids, imgs, chosen, save_dir, warned, browser, sniff,
                   scraped>>

\* lines 231-237
YoutubeFetch ==
    /\ pc = "gate"
    /\ platform = "youtube"
    /\ \/ \E ext \in Exts : YtdlpReturns(ext)
       \/ /\ YtdlpRaises
          /\ result' = ReturnNone
    /\ pc' = "done"
    /\ UNCHANGED <<racers, netloc, path, query, platform, collected, media_links,
                   vids, imgs, chosen, save_dir, warned, browser, sniff,
                   scraped>>

\* the watch/reel/videos/stories branch without the return of line 242: the
\* scraper runs whether or not the video fetch produced a file
FacebookVideoFetchThenScrape ==
    /\ pc = "gate"
    /\ platform = "facebook"
    /\ IsVideoShaped(path, query)
    /\ \/ \E ext \in Exts : YtdlpReturns(ext)
       \/ /\ YtdlpRaises
          /\ UNCHANGED result
    /\ pc' = "fallback_scrape"
    /\ UNCHANGED <<racers, netloc, path, query, platform, collected, media_links,
                   vids, imgs, chosen, save_dir, warned, browser, sniff,
                   scraped>>

\* lines 240-249: the try of the watch/reel/videos/stories branch
FacebookVideoFetch ==
    /\ pc = "gate"
    /\ platform = "facebook"
    /\ IsVideoShaped(path, query)
    /\ \/ /\ \E ext \in Exts : YtdlpReturns(ext)
          /\ pc' = "done"
       \/ /\ YtdlpRaises
          /\ pc' = "fallback_scrape"
          /\ UNCHANGED result
    /\ UNCHANGED <<racers, netloc, path, query, platform, collected, media_links,
                   vids, imgs, chosen, save_dir, warned, browser, sniff,
                   scraped>>

\* scrape_media_urls(url), lines 85-140; next_pc is where the caller goes on
ScrapeMediaUrls(next_pc) ==
    /\ calls' = [calls EXCEPT !.scrape = @ + 1]
    /\ \/ \E fault \in ScrapeSetupFaults :
            /\ browser' = IF fault = "launch_fault" THEN "none" ELSE "open"
            /\ scraped' = "raised"
            /\ result' = Raise("PlaywrightError")
            /\ pc' = "done"
            /\ UNCHANGED <<collected, media_links>>
       \/ \E els \in SeqsUpTo(SrcAttrs, MaxEls) :
            \E i \in 0..Len(els) : \E j \in i..Len(els) : \E cut \in 0..Len(els) :
              /\ collected' = Collect(SubSeq(els, 1, i), SubSeq(els, i + 1, j),
                                      SubSeq(els, j + 1, Len(els)), cut)
              /\ media_links' = Dedup(collected')
              /\ browser' = "closed"
              /\ scraped' = "returned"
              /\ pc' = next_pc
              /\ UNCHANGED result
    /\ UNCHANGED <<racers, netloc, path, query, platform, dir, vids, imgs, chosen,
                   save_dir, warned, sniff, fetched>>

\* line 250
ScrapeFallback ==
    /\ pc = "fallback_scrape"
    /\ ScrapeMediaUrls("fallback_select")

\* line 263
ScrapePhoto ==
    /\ pc = "gate"
    /\ platform = "facebook"
    /\ ~IsVideoShaped(path, query)
    /\ ScrapeMediaUrls("photo_select")

\* the partition of media_links (lines 252-253, 266-267), then what the
\* choice says
Act(choice) ==
    /\ chosen' = choice.src
    /\ save_dir' = choice.sd
    /\ warned' = choice.warn
    /\ IF choice.kind = "call" THEN pc' = "requests" /\ UNCHANGED result
       ELSE IF choice.kind = "None" THEN pc' = "done" /\ result' = ReturnNone
       ELSE pc' = "done" /\ result' = Raise(choice.kind)
    /\ collected' = <<>>
    /\ UNCHANGED <<racers, netloc, path, query, platform, dir, media_links, browser,
                   sniff, fetched, scraped, calls>>

Partition ==
    \E head \in [Range(media_links) -> Mimes] :
        /\ vids' = OfKind(media_links, head, "video")
        /\ imgs' = OfKind(media_links, head, "image")

\* lines 251-261
SelectFallback ==
    /\ pc = "fallback_select"
    /\ Partition
    /\ Act(FallbackChoice(media_links, vids', imgs'))

\* lines 264-280
SelectPhoto ==
    /\ pc = "photo_select"
    /\ Partition
    /\ Act(PhotoChoice(media_links, vids', imgs', path))

\* download_with_requests(chosen, save_dir), lines 145-167
DownloadWithRequests ==
    /\ pc = "requests"
    /\ calls' = [calls EXCEPT !.requests = @ + 1]
    /\ \E mime \in Mimes, get_ok \in BOOLEAN :
         result' = IF LocalExt(chosen, mime) = "TypeError" THEN Raise("TypeError")
                   ELSE IF get_ok
                   THEN Res("path", "requests", save_dir, chosen.stem, 0,
                            LocalExt(chosen, mime))
                   ELSE ReturnNone
    /\ pc' = "done"
    /\ UNCHANGED <<racers, netloc, path, query, platform, dir, collected, media_links,
                   vids, imgs, chosen, save_dir, warned, browser, sniff,
                   fetched, scraped>>

Next ==
    \/ Request
    \/ DetectPlatform
    \/ RejectUnsupported
    \/ YoutubeFetch
    \/ FacebookVideoFetch
    \/ ScrapeFallback
    \/ ScrapePhoto
    \/ SelectFallback
    \/ SelectPhoto
    \/ DownloadWithRequests

Spec == Init /\ [][Next]_vars


---------------------------------------------------------------------------
(* detect_platform on its own, over every hostname of up to MaxLabels labels *)

InitDetect ==
    /\ pc = "detect"
    /\ netloc \in WideNetlocs
    /\ path = <<>>
    /\ query = ""
    /\ platform = NoPlatform
    /\ dir = SomeFiles
    /\ collected = <<>>
    /\ media_links = <<>>
    /\ vids = <<>>
    /\ imgs = <<>>
    /\ chosen = NoSrc
    /\ save_dir = ""
    /\ warned = FALSE
    /\ browser = "none"
    /\ sniff = ""
    /\ fetched = ""
    /\ scraped = ""
    /\ calls = NoCalls
    /\ result = Running
    /\ racers = NoRacers

SpecDetect == InitDetect /\ [][DetectPlatform]_vars

---------------------------------------------------------------------------
(* The dedup loop of scrape_media_urls on its own, over every collected   *)
(* list of up to MaxCollected urls                                         *)

CdnSrcs == {src \in SrcAttrs : KeepSrc(src)}

InitDedup ==
    /\ pc = "dedup"
    /\ collected \in SeqsUpTo(CdnSrcs, MaxCollected)
    /\ netloc = <<>>
    /\ path = <<>>
    /\ query = ""
    /\ platform = NoPlatform
    /\ dir = SomeFiles
    /\ media_links = <<>>
    /\ vids = <<>>
    /\ imgs = <<>>
    /\ chosen = NoSrc
    /\ save_dir = ""
    /\ warned = FALSE
    /\ browser = "closed"
    /\ sniff = ""
    /\ fetched = ""
    /\ scraped = ""
    /\ calls = NoCalls
    /\ result = Running
    /\ racers = NoRacers

\* scrape_media_urls, lines 132-140
DedupLinks ==
    /\ pc = "dedup"
    /\ media_links' = Dedup(collected)
    /\ scraped' = "returned"
    /\ pc' = "deduped"
    /\ UNCHANGED <<racers, netloc, path, query, platform, dir, collected, vids, imgs,
                   chosen, save_dir, warned, browser, sniff, fetched, calls,
                   result>>

SpecDedup == InitDedup /\ [][DedupLinks]_vars

---------------------------------------------------------------------------
(* A sequential run of download_with_ytdlp calls on one directory *)

NamingNetlocs == Netlocs \cup {<<"m", "facebook", "com">>, <<"localhost">>}

InitNaming ==
    /\ pc = "ytdlp"
    /\ netloc \in NamingNetlocs
    /\ dir \in SUBSET SomeFiles
    /\ path = <<>>
    /\ query = ""
    /\ platform = NoPlatform
    /\ collected = <<>>
    /\ media_links = <<>>
    /\ vids = <<>>
    /\ imgs = <<>>
    /\ chosen = NoSrc
    /\ save_dir = ""
    /\ warned = FALSE
    /\ browser = "none"
    /\ sniff = ""
    /\ fetched = ""
    /\ scraped = ""
    /\ calls = NoCalls
    /\ result = Running
    /\ racers = NoRacers

\* download_with_ytdlp(url, VIDEO_DIR), lines 169-211
DownloadWithYtdlp ==
    /\ pc = "ytdlp"
    /\ \/ \E ext \in Exts : YtdlpReturns(ext)
       \/ /\ YtdlpRaises
          /\ result' = Raise(IF HasDomain(netloc) THEN "DownloadError" ELSE "IndexError")
    /\ pc' = "called"
    /\ UNCHANGED <<racers, netloc, path, query, platform, collected, media_links,
                   vids, imgs, chosen, save_dir, warned, browser, sniff,
                   scraped>>

\* the next call of the run
NextCall ==
    /\ pc = "called"
    /\ calls.ytdlp < MaxFetches
    /\ netloc' \in NamingNetlocs
    /\ fetched' = ""
    /\ result' = Running
    /\ pc' = "ytdlp"
    /\ UNCHANGED <<racers, path, query, platform, dir, collected, media_links, vids,
                   imgs, chosen, save_dir, warned, browser, sniff, scraped,
                   calls>>

SpecNaming == InitNaming /\ [][DownloadWithYtdlp \/ NextCall]_vars


---------------------------------------------------------------------------
(* Two concurrent download_with_ytdlp calls on one directory *)

RaceNetlocs == {<<"WWW", "facebook", "com">>, <<"m", "facebook", "com">>,
                <<"www", "YouTube", "com">>}

InitRace ==
    /\ pc = "race"
    /\ netloc = <<>>
    /\ dir \in SUBSET SomeFiles
    /\ path = <<>>
    /\ query = ""
    /\ platform = NoPlatform
    /\ collected = <<>>
    /\ media_links = <<>>
    /\ vids = <<>>
    /\ imgs = <<>>
    /\ chosen = NoSrc
    /\ save_dir = ""
    /\ warned = FALSE
    /\ browser = "none"
    /\ sniff = ""
    /\ fetched = ""
    /\ scraped = ""
    /\ calls = NoCalls
    /\ result = Running
    /\ racers \in [Racers -> {Racer("scan", h, {}, 0, "", Running) : h \in RaceNetlocs}]

\* what a step of caller r leaves alone
RaceFrame ==
    UNCHANGED <<pc, netloc, path, query, platform, collected, media_links,
                vids, imgs, chosen, save_dir, warned, browser, sniff,
                fetched, scraped, calls, result>>

\* lines 173-186: caller r lists the directory and picks its number
RaceScan(r) ==
    /\ racers[r].pc = "scan"
    /\ LET domain == DomainOf(racers[r].netloc) IN
         racers' = [racers EXCEPT
                      ![r].existing_files = {f \in dir : f.prefix = domain},
                      ![r].next_num = NextNum(dir, domain),
                      ![r].pc = "download"]
    /\ UNCHANGED dir
    /\ RaceFrame

\* lines 199-201: yt-dlp writes {domain}_{next_num}.{ext} for caller r, or
\* raises
RaceDownload(r) ==
    /\ racers[r].pc = "download"
    /\ \/ \E ext \in Exts :
            /\ dir' = dir \cup {File(DomainOf(racers[r].netloc), TRUE,
                                     racers[r].next_num, ext)}
            /\ racers' = [racers EXCEPT ![r].ext = ext, ![r].pc = "finish"]
       \/ /\ racers' = [racers EXCEPT ![r].final_path = Raise("DownloadError"),
                                       ![r].pc = "returned"]
          /\ UNCHANGED dir
    /\ RaceFrame

\* lines 203-211: caller r renames {domain}_temp.{ext}, if there is one,
\* onto its final name and returns the final path
RaceFinish(r) ==
    /\ racers[r].pc = "finish"
    /\ LET final == File(DomainOf(racers[r].netloc), TRUE, racers[r].next_num,
                         racers[r].ext)
           temp == TempFile(DomainOf(racers[r].netloc), racers[r].ext)
       IN  /\ dir' = IF temp \in dir THEN (dir \ {temp}) \cup {final} ELSE dir
           /\ racers' = [racers EXCEPT ![r].final_path = YtdlpPath(final),
                                       ![r].pc = "returned"]
    /\ RaceFrame

NextRace == \E r \in Racers : RaceScan(r) \/ RaceDownload(r) \/ RaceFinish(r)

SpecRace == InitRace /\ [][NextRace]_vars


---------------------------------------------------------------------------
(* Claims *)

\* the hostname, as typed, holds one of the known platform names
NamesFacebook(host) == ContainsLabels(host, <<"facebook", "com">>)

NamesYoutube(host) ==
    ContainsLabels(host, <<"youtube", "com">>) \/ ContainsLabels(host, <<"youtu", "be">>)

\* a Facebook photo/feed-shaped request whose scrape returned
PhotoRequestScraped ==
    /\ platform = "facebook"
    /\ ~IsVideoShaped(path, query)
    /\ scraped = "returned"

\* a Facebook watch/reel/videos/stories-shaped request whose video fetch
\* failed and whose scrape returned
FallbackScraped ==
    /\ platform = "facebook"
    /\ IsVideoShaped(path, query)
    /\ fetched = "raised"
    /\ scraped = "returned"

\* C1: for a Facebook photo/feed-shaped URL whose scraped candidates hold
\* neither a video nor an image (the list empty, or only unknown-typed
\* candidates), download_media returns None and does not raise.
C1_NoneWhenNothingUsable ==
    (pc = "done" /\ PhotoRequestScraped /\ vids = <<>> /\ imgs = <<>>)
        => result = ReturnNone

\* C2: for a Facebook video-shaped URL, when download_with_ytdlp fails and
\* scrape_media_urls then returns the empty list, download_media returns
\* None, does not raise and never calls download_with_requests.
C2_FallbackExhausted ==
    (FallbackScraped /\ media_links = <<>>)
        => /\ calls.requests = 0
           /\ pc \in {"fallback_select", "done"}
           /\ (pc = "done" => result = ReturnNone)

C2_Witness ==
    /\ pc = "done"
    /\ FallbackScraped
    /\ media_links = <<>>
    /\ calls.ytdlp = 1
    /\ calls.scrape = 1
    /\ result = ReturnNone

\* C3: when the hostname matches no known platform and the rendered page
\* has no matching metadata marker (or the navigation fails),
\* detect_platform returns no platform and download_media returns None
\* without invoking the video fetch, the scraper or the generic download.
C3_UnknownPlatformRejected ==
    (~NamesFacebook(LowerAll(netloc)) /\ ~NamesYoutube(LowerAll(netloc))
     /\ sniff \in {"no_meta", "goto_fault"})
        => /\ platform = NoPlatform
           /\ calls.ytdlp = 0 /\ calls.scrape = 0 /\ calls.requests = 0
           /\ pc \in {"gate", "done"}
           /\ (pc = "done" => result = ReturnNone)

C3_Witness ==
    /\ pc = "done"
    /\ netloc = <<"fb", "watch">>
    /\ sniff = "goto_fault"
    /\ calls.sniff = 1
    /\ result = ReturnNone

\* position of the first occurrence of x in s (0 when there is none)
FirstPos(s, x) ==
    IF x \in Range(s) THEN CHOOSE i \in 1..Len(s) : s[i] = x /\ \A j \in 1..(i - 1) : s[j] # x
    ELSE 0

\* a candidate was handed to download_with_requests
Downloading == pc = "requests" \/ calls.requests > 0

\* C4: whenever the scraped candidates of a Facebook URL hold a video, the
\* candidate downloaded is the first video in scrape order, into the videos
\* directory, however many images precede it and whatever photo index the
\* URL has; an image is downloaded only when there is no video.  This holds
\* for photo/feed-shaped URLs and for the fallback of video-shaped URLs.
C4_VideoOverImage ==
    ((PhotoRequestScraped \/ FallbackScraped) /\ pc \in {"requests", "done"})
        => /\ (vids # <<>>
                 => /\ Downloading
                    /\ save_dir = "videos"
                    /\ chosen \in Range(vids)
                    /\ \A v \in Range(vids) :
                         FirstPos(media_links, chosen) <= FirstPos(media_links, v))
           /\ ((Downloading /\ save_dir = "images")
                 => vids = <<>> /\ chosen \in Range(imgs))

C4_Witness ==
    /\ pc = "requests"
    /\ PhotoRequestScraped
    /\ path = <<"photo", "2">>
    /\ Len(media_links) = 2
    /\ media_links[1] \in Range(imgs)
    /\ media_links[2] \in Range(vids)
    /\ chosen = media_links[2]
    /\ save_dir = "videos"

\* the image the claim's rule picks for photo index k
ImageAt(k) == IF 0 <= k - 1 /\ k - 1 < Len(imgs) THEN imgs[k] ELSE imgs[1]

\* the photo indices the claim's rule can read from the path: the segment
\* after a "photo" component, 1 when that is absent or not a number
IndicesAfterPhoto(p) ==
    IF "photo" \notin Range(p) THEN {1}
    ELSE {IF i < Len(p) /\ IsNumeric(p[i + 1]) THEN IntOf(p[i + 1]) ELSE 1 :
            i \in {n \in 1..Len(p) : p[n] = "photo"}}

\* the photo index the last path segment gives when some path component
\* is "photo", 1 when there is none or the last segment is not a number
IndexOfLastSegment(p) ==
    IF "photo" \in Range(p) /\ IsNumeric(p[Len(p)]) THEN IntOf(p[Len(p)]) ELSE 1

\* a photo/feed-shaped request with only image candidates
OnlyImages ==
    /\ PhotoRequestScraped
    /\ pc \in {"requests", "done"}
    /\ vids = <<>>
    /\ imgs # <<>>

\* C5 (as claimed): with no video and some image candidates, the image
\* downloaded is the one at zero-based position k-1, k being the path
\* segment that follows the "photo" component (1 when absent or not a
\* number), or the first image when k-1 is out of range.
C5_IndexFollowsPhoto ==
    OnlyImages
        => /\ Downloading
           /\ save_dir = "images"
           /\ \E k \in IndicesAfterPhoto(path) : chosen = ImageAt(k)

\* C5 (amended): with no video and some image candidates, k is the LAST
\* path segment whenever some path component is "photo" (1 when none is, or
\* the last segment is not a number); the image at zero-based position k-1
\* is downloaded when 0 <= k-1 < number of images, otherwise the first
\* image with a warning; the call does not fail for the index.
C5_IndexIsLastSegment ==
    OnlyImages
        => LET k == IndexOfLastSegment(path) IN
           /\ Downloading
           /\ save_dir = "images"
           /\ chosen = ImageAt(k)
           /\ warned = ~(0 <= k - 1 /\ k - 1 < Len(imgs))

C5_Witness ==
    /\ pc = "requests"
    /\ OnlyImages
    /\ path = <<"photo", "2">>
    /\ Len(imgs) = 2
    /\ chosen = imgs[2]
    /\ ~warned


\* n is one greater than the largest index among the files of d named
\* {prefix}_{integer}.*, and 1 when d holds no such file
IsNextIndex(d, prefix, n) ==
    LET indexed == {f \in d : f.prefix = prefix /\ f.num} IN
    IF indexed = {} THEN n = 1
    ELSE /\ \A f \in indexed : f.idx < n
         /\ \E f \in indexed : f.idx = n - 1

\* a step in which download_with_ytdlp returns a path
YtdlpReturnStep == pc = "ytdlp" /\ pc' = "called" /\ fetched' = "returned"

\* C6: the index N of the name download_with_ytdlp returns is one greater
\* than the largest integer index among the files already in the directory
\* that carry the name's prefix, and 1 when there is none; so in a
\* sequential run a fetch never takes the name of a numbered file that is
\* already there.
C6_NumberedNaming ==
    [][YtdlpReturnStep
         => /\ result'.kind = "path"
            /\ IsNextIndex(dir, result'.stem, result'.idx)
            /\ File(result'.stem, TRUE, result'.idx, result'.ext) \notin dir
            /\ File(result'.stem, TRUE, result'.idx, result'.ext) \in dir'
            /\ \A f \in dir : f.num => f \in dir']_vars

C6_Witness ==
    /\ pc = "called"
    /\ fetched = "returned"
    /\ calls.ytdlp = 1
    /\ netloc = <<"m", "facebook", "com">>
    /\ result = Res("path", "ytdlp", "videos", "facebook", 4, "mp4")
    /\ File("facebook", TRUE, 1, "mp4") \in dir
    /\ File("facebook", TRUE, 3, "mp4") \in dir

\* C7: every path the video fetch returns is named {platform}_{N}.{ext}
\* with the platform tag detect_platform gave the request (youtube or
\* facebook), whether the hostname or the meta-tag sniff decided it.
C7_PrefixIsPlatform ==
    (result.kind = "path" /\ result.via = "ytdlp") => result.stem = platform

\* C8 (as claimed): for every hostname that contains "youtube.com" or
\* "youtu.be", detect_platform returns youtube and never launches the
\* rendering fallback.
C8_YoutubeHostIsYoutube ==
    (pc # "detect" /\ NamesYoutube(netloc))
        => platform = "youtube" /\ calls.sniff = 0

\* C8 (amended): for every hostname that contains "youtube.com" or
\* "youtu.be", detect_platform never launches the rendering fallback, and
\* returns youtube unless the hostname also contains "facebook.com", in
\* which case it returns facebook.
C8_YoutubeHostUnlessFacebook ==
    (pc # "detect" /\ NamesYoutube(netloc))
        => /\ pc = "gate"
           /\ calls.sniff = 0
           /\ sniff = ""
           /\ browser = "none"
           /\ platform = IF NamesFacebook(netloc) THEN "facebook" ELSE "youtube"

C8_Witness ==
    /\ pc = "gate"
    /\ netloc = <<"youtu", "be">>
    /\ platform = "youtube"
    /\ calls.sniff = 0

\* C9: when the platform is youtube, download_media attempts the video
\* fetch exactly once; when that fails the result is None, and neither the
\* scraper nor the generic download is invoked for the request.
C9_YoutubeSingleAttempt ==
    platform = "youtube"
        => /\ pc \in {"gate", "done"}
           /\ calls.ytdlp = (IF pc = "done" THEN 1 ELSE 0)
           /\ calls.scrape = 0
           /\ calls.requests = 0
           /\ scraped = ""
           /\ (fetched = "raised" => pc = "done" /\ result = ReturnNone)

C9_Witness ==
    /\ pc = "done"
    /\ platform = "youtube"
    /\ fetched = "raised"
    /\ calls.ytdlp = 1
    /\ result = ReturnNone

\* C10: the list scrape_media_urls returns holds no url twice, holds
\* exactly the distinct urls that were collected, and orders them by their
\* first occurrence in the collected sequence; [A, B, A, C, B] gives
\* [A, B, C].
C10_DedupFirstOccurrence ==
    pc = "deduped"
        => /\ \A i, j \in 1..Len(media_links) :
                i # j => media_links[i] # media_links[j]
           /\ Range(media_links) = Range(collected)
           /\ \A i, j \in 1..Len(media_links) :
                i < j => FirstPos(collected, media_links[i])
                           < FirstPos(collected, media_links[j])

C10_Witness ==
    /\ pc = "deduped"
    /\ collected = <<SrcA, SrcV, SrcA, SrcU, SrcV>>
    /\ media_links = <<SrcA, SrcV, SrcU>>

\* the files this call has added to the video directory
NewFiles == dir \ SomeFiles

\* C11: a single download_media call yields at most one acquired file: the
\* video fetch and the generic download are each invoked at most once, at
\* most one of them completes with a file, and once the video fetch has
\* produced a file neither the scraper nor the generic download is run.
C11_AtMostOneFile ==
    /\ calls.ytdlp <= 1
    /\ calls.requests <= 1
    /\ Cardinality(NewFiles) <= 1
    /\ fetched = "returned" =>
          /\ pc = "done"
          /\ calls.scrape = 0
          /\ calls.requests = 0
          /\ result.kind = "path" /\ result.via = "ytdlp"
    /\ calls.requests = 1 =>
          /\ pc = "done"
          /\ NewFiles = {}
          /\ result.kind = "path" => result.via = "requests"
    /\ result.kind = "path" => pc = "done"

\* the video fetch failed, the scraper ran and the one generic download
\* produced the call's only file
C11_Witness ==
    /\ pc = "done"
    /\ fetched = "raised"
    /\ calls.ytdlp = 1
    /\ calls.scrape = 1
    /\ calls.requests = 1
    /\ result.kind = "path"
    /\ NewFiles = {}

\* C12: scrape_media_urls never propagates an exception to its caller: a
\* fault at any step of the rendering session, browser launch, page open
\* and header setup included, ends in the call returning the candidates
\* collected before the fault.
C12_ScrapeNeverRaises ==
    calls.scrape > 0 => scraped = "returned"

\* C13: every rendering session opened by the sniff of detect_platform or
\* by scrape_media_urls is closed with browser.close before the call
\* returns or raises, on every exit path after the launch.
C13_SessionsClosed ==
    (sniff # "" \/ calls.scrape > 0) => browser # "open"

\* C14: download_with_requests always ends by returning a local path or
\* the failure value and never by raising; a basename without extension
\* gets one from the HEAD content type, or the generic binary extension
\* when none can be derived.
C14_RequestsNeverRaises ==
    calls.requests > 0 =>
        /\ result.kind \in {"path", "None"}
        /\ (result.kind = "path" /\ chosen.ext = "") =>
              result.ext \in {".jpg", ".mp4", ".bin"}

\* a Facebook watch/reel/videos/stories-shaped request past detect_platform
VideoShapedFacebook == platform = "facebook" /\ IsVideoShaped(path, query)

\* C15: for a Facebook watch/reel/videos/stories-shaped URL the video fetch
\* is attempted first and exactly once; the scraper runs only after that
\* attempt has failed and never after it succeeded; a generic download
\* runs only after the scraper has returned a candidate, into the
\* directory matching the chosen candidate's classified type.
C15_FetchThenScrapeThenDownload ==
    VideoShapedFacebook =>
        /\ calls.ytdlp <= 1
        /\ (pc \in {"fallback_scrape", "fallback_select", "requests", "done"})
              => calls.ytdlp = 1
        /\ (pc = "fallback_scrape" \/ calls.scrape > 0) => fetched = "raised"
        /\ fetched = "returned" => (calls.scrape = 0 /\ ~Downloading)
        /\ Downloading =>
              /\ scraped = "returned"
              /\ chosen \in Range(media_links)
              /\ save_dir = "videos" => chosen \in Range(vids)
              /\ save_dir = "images" => chosen \in Range(imgs)
              /\ save_dir \in {"videos", "images"}

\* the video fetch of a video-shaped Facebook request failed, the scraper
\* returned only images and the first one went into the images directory
C15_Witness ==
    /\ VideoShapedFacebook
    /\ pc = "done"
    /\ calls = [sniff |-> 0, ytdlp |-> 1, scrape |-> 1, requests |-> 1]
    /\ fetched = "raised"
    /\ vids = <<>>
    /\ chosen \in Range(imgs)
    /\ save_dir = "images"

\* caller r has listed the directory
Scanned(r) == racers[r].pc \in {"download", "finish", "returned"}

\* the listing of caller r holds a file with the number caller s picked:
\* s wrote its file before r listed the directory
SawFileOf(r, s) ==
    \E f \in racers[r].existing_files : f.num /\ f.idx = racers[s].next_num

\* both callers listed the directory before either wrote its file
BothScannedFirst(a, b) == ~SawFileOf(a, b) /\ ~SawFileOf(b, a)

SamePlatform(a, b) == DomainOf(racers[a].netloc) = DomainOf(racers[b].netloc)

Returned(r) == racers[r].pc = "returned" /\ racers[r].final_path.kind = "path"

\* C16: two concurrent download_with_ytdlp calls for the same platform and
\* directory collide exactly when both list the directory before either
\* writes: they then compute the same index N and, with the same
\* container, write and return the same {platform}_{N}.{ext} path; a
\* caller that lists the directory after the other wrote gets another N.
C16_RaceCollides ==
    \A a, b \in Racers :
        (a # b /\ SamePlatform(a, b) /\ Scanned(a) /\ Scanned(b)) =>
            /\ BothScannedFirst(a, b) <=> racers[a].next_num = racers[b].next_num
            /\ (BothScannedFirst(a, b) /\ Returned(a) /\ Returned(b)
                   /\ racers[a].ext = racers[b].ext)
                  => /\ racers[a].final_path = racers[b].final_path
                     /\ File(racers[a].final_path.stem, TRUE,
                             racers[a].final_path.idx,
                             racers[a].final_path.ext) \in dir

\* both callers listed the directory before either wrote, and both
\* returned the same path
C16_Witness ==
    /\ SamePlatform("a", "b")
    /\ racers["a"].netloc # racers["b"].netloc
    /\ BothScannedFirst("a", "b")
    /\ Returned("a")
    /\ Returned("b")
    /\ racers["a"].final_path = racers["b"].final_path

====
